---------------------------- MODULE Spec2Model ----------------------------
(***************************************************************************)
(* A model of inix (src/src/main.rs): one invocation of `run`, from the   *)
(* resolution of the requested templates to the rendering of the base     *)
(* files, over an abstract file system holding the target directory, its  *)
(* shell.nix and .envrc, and the inix/ scaffold directory.                *)
(***************************************************************************)
EXTENDS Naturals, Sequences, FiniteSets, TLC

(***************************************************************************)
(* Bounds of the model.                                                    *)
(***************************************************************************)
\* longest list of template names given on the command line
MaxTemplates == 2
\* how many lines that give no decision the prompt loop reads in one run
MaxReprompts == 1

(***************************************************************************)
(* Values.                                                                 *)
(***************************************************************************)
\* names a user may type on the command line; "ghost" and "phantom" are found nowhere
TemplateArgs == {"rust", "node", "ghost", "phantom"}

\* enum ConflictBehavior
Overwrite == "Overwrite"
MergeKeep == "MergeKeep"
MergeReplace == "MergeReplace"
Cancel == "Cancel"
ConflictBehavior == {Overwrite, MergeKeep, MergeReplace, Cancel}

\* cli.on_conflict is an Option<ConflictBehavior>
NoBehavior == "NotGiven"

NoFiles == <<>>

\* A file's contents: where they come from, for which template names, as which file.
Content(kind, names, file) == [kind |-> kind, names |-> names, file |-> file]
OldContent(file) == Content("Old", <<>>, file)
EmptyContent(file) == Content("Empty", <<>>, file)

\* Template2::files: the (file name, contents) pairs of a template, in the code's order
TemplateFileList(t) ==
    CASE t.files = "Nix" -> << <<"shell.nix", Content(t.type, <<t.name>>, "shell.nix")>> >>
      [] t.files = "Envrc" -> << <<".envrc", Content(t.type, <<t.name>>, ".envrc")>> >>
      [] t.files = "Both" -> << <<".envrc", Content(t.type, <<t.name>>, ".envrc")>>,
                                <<"shell.nix", Content(t.type, <<t.name>>, "shell.nix")>> >>

\* included_templates: the built-in registry
IncludedTemplates ==
    ("rust" :> [name |-> "rust", files |-> "Nix", type |-> "Builtin"]) @@
    ("node" :> [name |-> "node", files |-> "Both", type |-> "Builtin"]) @@
    ("base" :> [name |-> "base", files |-> "Both", type |-> "Builtin"])

RECURSIVE SeqToSet(_)
SeqToSet(s) == IF s = <<>> THEN {} ELSE {Head(s)} \cup SeqToSet(Tail(s))

RECURSIVE SelectNames(_, _)
\* iter().filter(...) over a list of names, keeping order and duplicates
SelectNames(s, keep) ==
    IF s = <<>> THEN <<>>
    ELSE IF Head(s) \in keep THEN <<Head(s)>> \o SelectNames(Tail(s), keep)
         ELSE SelectNames(Tail(s), keep)

RECURSIVE Names(_)
\* templates.iter().map(Template2::name)
Names(ts) == IF ts = <<>> THEN <<>> ELSE <<Head(ts).name>> \o Names(Tail(ts))


(***************************************************************************)
(* The file system.  target is the target directory's kind; root holds    *)
(* the files at its root; inix is the scaffold directory: its kind and    *)
(* its entries, each a directory with files or a plain file.              *)
(***************************************************************************)
NoInix == [kind |-> "absent", subs |-> <<>>]
EmptyDir == [kind |-> "dir", files |-> NoFiles]
PlainFile == [kind |-> "file", files |-> NoFiles]

\* Path::is_dir on the target directory
TargetIsDir(f) == f.target \in {"dir", "rodir"}

\* Path::exists on the target directory
TargetExists(f) == f.target # "absent"

\* Path::is_dir is fs::metadata(path).map(|m| m.is_dir()).unwrap_or(false): the file
\* system as is_dir answers when the metadata of the paths in d cannot be read
AsIsDirSees(f, d) ==
    IF "inix" \in d THEN [f EXCEPT !.inix = [kind |-> "absent", subs |-> <<>>]]
    ELSE IF f.inix.kind = "dir"
         THEN [f EXCEPT !.inix.subs = [n \in DOMAIN f.inix.subs \ d |-> f.inix.subs[n]]]
         ELSE f

\* inix_dir_path.is_dir()
InixIsDir(f) == TargetIsDir(f) /\ f.inix.kind = "dir"

\* inix_dir_path.join(name).is_dir()
SubIsDir(f, name) ==
    /\ InixIsDir(f)
    /\ name \in DOMAIN f.inix.subs
    /\ f.inix.subs[name].kind = "dir"

\* create_dir_all(&target_dir): possible unless something that is no directory is there
CanCreateTargetDir(f) == f.target # "file"
CreateTargetDir(f) == IF f.target = "absent" THEN [f EXCEPT !.target = "dir"] ELSE f

\* create_dir_all(inix_dir.path)
CanCreateInixDir(f) == TargetIsDir(f) /\ f.inix.kind # "file"
CreateInixDir(f) ==
    IF f.inix.kind = "dir" THEN f ELSE [f EXCEPT !.inix = [kind |-> "dir", subs |-> <<>>]]

\* variant: a removal that leaves the directory and its entries in place
RemoveInixDirSkipped(f) == f

\* remove_dir_all(inix_dir.path)
CanRemoveInixDir(f) == InixIsDir(f)
RemoveInixDir(f) == [f EXCEPT !.inix = NoInix]

\* create_dir_all(&target) for target = inix_dir.path.join(name)
\* (create_dir_all makes the missing parent inix/ as well)
CanCreateTemplateDir(f, name) ==
    /\ CanCreateInixDir(f)
    /\ (InixIsDir(f) /\ name \in DOMAIN f.inix.subs) => f.inix.subs[name].kind = "dir"
CreateTemplateDir(f, name) ==
    LET g == CreateInixDir(f)
    IN IF name \in DOMAIN g.inix.subs THEN g
       ELSE [g EXCEPT !.inix.subs = (name :> EmptyDir) @@ g.inix.subs]

\* variant: a write that leaves a file that is already there as it is
WriteTemplateFileIfNew(f, name, file, contents) ==
    [f EXCEPT !.inix.subs[name].files = f.inix.subs[name].files @@ (file :> contents)]

\* fs::write(target.join(file_name), contents)
CanWriteTemplateFile(f, name) == SubIsDir(f, name)
WriteTemplateFile(f, name, file, contents) ==
    [f EXCEPT !.inix.subs[name].files = (file :> contents) @@ f.inix.subs[name].files]

\* fs::File::create(target_dir.join(file)): the file is created or truncated
CanCreateRootFile(f) == TargetIsDir(f)
CreateRootFile(f, file) == [f EXCEPT !.root = (file :> EmptyContent(file)) @@ f.root]

\* handlebars.render_template_to_write(base template, {"templates": names}, file)
RenderRootFile(f, file, names) ==
    [f EXCEPT !.root = (file :> Content("Rendered", names, file)) @@ f.root]

(***************************************************************************)
(* try_get_templates: the user's templates come first, then the built-ins *)
(***************************************************************************)
\* found_template_dirs: only a location that is a directory is searched
FoundTemplateDirs(dirState) == IF dirState = "Dir" THEN {"config"} ELSE {}

\* the closure mapped over input_templates: Some(template) or the miss
FindTemplate(name, dirState, userFiles) ==
    IF FoundTemplateDirs(dirState) # {} /\ name \in DOMAIN userFiles
    THEN [ok |-> TRUE, t |-> [name |-> name, files |-> userFiles[name], type |-> "Custom"]]
    ELSE IF name \in DOMAIN IncludedTemplates
         THEN [ok |-> TRUE, t |-> IncludedTemplates[name]]
         ELSE [ok |-> FALSE, t |-> [name |-> name, files |-> "Nix", type |-> "Missing"]]

RECURSIVE FoundTemplates(_, _, _)
\* oks of partition_result
FoundTemplates(input, dirState, userFiles) ==
    IF input = <<>> THEN <<>>
    ELSE LET r == FindTemplate(Head(input), dirState, userFiles)
             rest == FoundTemplates(Tail(input), dirState, userFiles)
         IN IF r.ok THEN <<r.t>> \o rest ELSE rest

RECURSIVE FirstMissingTemplate(_, _, _)
\* variant: the search stops at the first name that is not found
FirstMissingTemplate(input, dirState, userFiles) ==
    IF input = <<>> THEN <<>>
    ELSE IF FindTemplate(Head(input), dirState, userFiles).ok
         THEN FirstMissingTemplate(Tail(input), dirState, userFiles)
         ELSE <<Head(input)>>

RECURSIVE MissingTemplates(_, _, _)
\* errs of partition_result
MissingTemplates(input, dirState, userFiles) ==
    IF input = <<>> THEN <<>>
    ELSE LET r == FindTemplate(Head(input), dirState, userFiles)
             rest == MissingTemplates(Tail(input), dirState, userFiles)
         IN IF r.ok THEN rest ELSE <<Head(input)>> \o rest

(***************************************************************************)
(* The state of the inix directory (run, "gather all data about the inix  *)
(* dir").                                                                  *)
(***************************************************************************)
Collisions(tag, names) == [tag |-> tag, names |-> names]
NoCollisions == Collisions("None", <<>>)

\* conflicting_templates: the requested names that are directories under inix/
ConflictingTemplates(ts, f) ==
    SelectNames(Names(ts), {n \in SeqToSet(Names(ts)) : SubIsDir(f, n)})

\* variant: "all" decided against the number of distinct requested names
TemplateCollisionsByDistinctNames(conflicting, ts) ==
    IF conflicting = <<>> THEN NoCollisions
    ELSE IF Len(conflicting) = Cardinality(SeqToSet(Names(ts)))
         THEN Collisions("All", conflicting)
         ELSE Collisions("Some", conflicting)

\* the match on conflicting_templates.as_slice()
TemplateCollisions(conflicting, ts) ==
    IF conflicting = <<>> THEN NoCollisions
    ELSE IF Len(conflicting) = Len(ts) THEN Collisions("All", conflicting)
         ELSE Collisions("Some", conflicting)

DoesNotExist == [exists |-> FALSE, collisions |-> NoCollisions]
AlreadyExists(c) == [exists |-> TRUE, collisions |-> c]

\* the value of inix_dir.state
InixDirState(ts, f) ==
    IF InixIsDir(f)
    THEN AlreadyExists(TemplateCollisions(ConflictingTemplates(ts, f), ts))
    ELSE DoesNotExist

(***************************************************************************)
(* prompt_for_conflict_behavior: the options and the reading of one line. *)
(* A line is a sequence of one-character strings.                         *)
(***************************************************************************)
\* variant: the four options of Some offered whatever the collisions
PromptOptionsAlwaysFour(c) ==
    ("A" :> Overwrite) @@ ("B" :> MergeReplace) @@ ("C" :> MergeKeep) @@ ("D" :> Cancel)

\* the hash_map! of each Prompt: key -> PromptOption.conflict_behavior
PromptOptions(c) ==
    CASE c.tag = "None" -> ("A" :> MergeKeep) @@ ("B" :> Overwrite) @@ ("C" :> Cancel)
      [] c.tag = "All" -> ("A" :> Overwrite) @@ ("B" :> MergeReplace) @@ ("C" :> Cancel)
      [] c.tag = "Some" -> ("A" :> Overwrite) @@ ("B" :> MergeReplace) @@
                           ("C" :> MergeKeep) @@ ("D" :> Cancel)

\* PromptOption.short_description of each key
PromptLabels(c) ==
    CASE c.tag = "None" -> ("A" :> "merge") @@ ("B" :> "overwrite") @@ ("C" :> "cancel")
      [] c.tag = "All" -> ("A" :> "overwrite") @@ ("B" :> "merge-replace") @@ ("C" :> "cancel")
      [] c.tag = "Some" -> ("A" :> "overwrite") @@ ("B" :> "merge-replace") @@
                           ("C" :> "merge-keep") @@ ("D" :> "cancel")

IsWhitespace(ch) == ch \in {" ", "\t"}

RECURSIVE TrimStart(_)
TrimStart(line) ==
    IF line # <<>> /\ IsWhitespace(Head(line)) THEN TrimStart(Tail(line)) ELSE line

RECURSIVE TrimEnd(_)
TrimEnd(line) ==
    IF line # <<>> /\ IsWhitespace(line[Len(line)])
    THEN TrimEnd(SubSeq(line, 1, Len(line) - 1))
    ELSE line

\* variant: only the leading whitespace is removed
TrimStartOnly(line) == TrimStart(line)

\* str::trim
Trim(line) == TrimEnd(TrimStart(line))

\* u8::to_ascii_uppercase on the characters the model's lines use
ToAsciiUppercase(ch) ==
    CASE ch = "a" -> "A" [] ch = "b" -> "B" [] ch = "c" -> "C" [] ch = "d" -> "D"
      [] ch = "e" -> "E" [] OTHER -> ch

\* str::eq_ignore_ascii_case
EqIgnoreAsciiCase(s, t) ==
    /\ Len(s) = Len(t)
    /\ \A i \in 1..Len(s) : ToAsciiUppercase(s[i]) = ToAsciiUppercase(t[i])

\* prompt.options.iter().find(...): the keys the line selects
MatchingKeys(line, options) ==
    {k \in DOMAIN options : EqIgnoreAsciiCase(Trim(line), <<k>>)}

\* the match on Ok(line): "show" the options again, a behaviour, or "unknown"
LineDecision(line, options) ==
    IF Trim(line) = <<"?">> THEN "show"
    ELSE IF MatchingKeys(line, options) # {}
         THEN options[CHOOSE k \in MatchingKeys(line, options) : TRUE]
         ELSE "unknown"

(***************************************************************************)
(* The plan of a run: what the dry run says and what a real run copies.   *)
(***************************************************************************)
Narrative(shape, deletes, adds, overwrites) ==
    [shape |-> shape, deletes |-> deletes, adds |-> adds, overwrites |-> overwrites]
NoNarrative == Narrative("none", FALSE, <<>>, <<>>)

\* new_template_names.filter(|t| !ts.contains(t))
RequestedMinus(ts, colliding) ==
    SelectNames(Names(ts), SeqToSet(Names(ts)) \ SeqToSet(colliding))

\* variant: the merge (keep) message for Some lists every requested template
DescribeKeepUnfiltered(state, behavior, ts) ==
    IF ~state.exists THEN Narrative("create", FALSE, Names(ts), <<>>)
    ELSE CASE behavior = Overwrite -> Narrative("overwrite", TRUE, Names(ts), <<>>)
           [] behavior = MergeKeep /\ state.collisions.tag = "All" ->
                Narrative("nothing", FALSE, <<>>, <<>>)
           [] behavior = MergeKeep /\ state.collisions.tag # "All" ->
                Narrative("merge-keep", FALSE, Names(ts), <<>>)
           [] behavior = MergeReplace /\ state.collisions.tag = "Some" ->
                Narrative("merge-replace", FALSE, Names(ts), state.collisions.names)
           [] behavior = MergeReplace /\ state.collisions.tag # "Some" ->
                Narrative("merge-replace", FALSE, Names(ts), <<>>)
           [] behavior = Cancel -> Narrative("nothing", FALSE, <<>>, <<>>)

\* the messages of the dry-run branch, by what they announce
Describe(state, behavior, ts) ==
    IF ~state.exists THEN Narrative("create", FALSE, Names(ts), <<>>)
    ELSE CASE behavior = Overwrite -> Narrative("overwrite", TRUE, Names(ts), <<>>)
           [] behavior = MergeKeep /\ state.collisions.tag = "Some" ->
                Narrative("merge-keep", FALSE, RequestedMinus(ts, state.collisions.names), <<>>)
           [] behavior = MergeKeep /\ state.collisions.tag = "None" ->
                Narrative("merge-keep", FALSE, Names(ts), <<>>)
           [] behavior = MergeKeep /\ state.collisions.tag = "All" ->
                Narrative("nothing", FALSE, <<>>, <<>>)
           [] behavior = MergeReplace /\ state.collisions.tag = "Some" ->
                Narrative("merge-replace", FALSE, Names(ts), state.collisions.names)
           [] behavior = MergeReplace /\ state.collisions.tag = "None" ->
                Narrative("merge-replace", FALSE, Names(ts), <<>>)
           [] behavior = MergeReplace /\ state.collisions.tag = "All" ->
                Narrative("merge-replace", FALSE, Names(ts), <<>>)
           [] behavior = Cancel -> Narrative("nothing", FALSE, <<>>, <<>>)

RECURSIVE SelectTemplates(_, _)
\* templates.iter().filter(...).map(|t| t.clone()).collect()
SelectTemplates(ts, keep) ==
    IF ts = <<>> THEN <<>>
    ELSE IF Head(ts).name \in keep THEN <<Head(ts)>> \o SelectTemplates(Tail(ts), keep)
         ELSE SelectTemplates(Tail(ts), keep)

\* variant: the Some arm without its filter
TemplatesToCopyUnfiltered(c, ts) ==
    CASE c.tag = "Some" -> ts
      [] c.tag = "None" -> ts
      [] c.tag = "All" -> <<>>

\* templates_to_copy of the MergeKeep arm
TemplatesToCopy(c, ts) ==
    CASE c.tag = "Some" -> SelectTemplates(ts, SeqToSet(Names(ts)) \ SeqToSet(c.names))
      [] c.tag = "None" -> ts
      [] c.tag = "All" -> <<>>

(***************************************************************************)
(* The state of one invocation.                                            *)
(***************************************************************************)
VARIABLES
    cli,          \* the arguments: templates, dry_run, on_conflict
    configDir,    \* what <config dir>/inix is: "Dir", "NotADir", "NotFound", "NoConfigDir"
    userFiles,    \* the templates found there: name -> "Nix", "Envrc" or "Both"
    fs,           \* the file system
    fs0,          \* the file system when the run started
    pc,           \* where run is
    templates,    \* the resolved templates
    inixState,    \* inix_dir.state
    onConflict,   \* on_conflict, once resolved
    toCopy,       \* the templates the taken arm loops over
    ti,           \* index of the template being copied
    fi,           \* index of the file of that template being written
    result,       \* "running", "Ok", or the error run returns
    missing,      \* the names the "couldn't find these templates" error lists
    log,          \* the file-system calls that succeeded, in order
    prompted,     \* whether the prompt was shown
    reprompts,    \* lines read at the prompt that gave no decision
    lastRead,     \* what the last rl.readline(">> ") returned
    denied,       \* the paths under the target whose metadata cannot be read
    narrative     \* what the dry run printed

vars == <<cli, configDir, userFiles, fs, fs0, pc, templates, inixState, onConflict,
          toCopy, ti, fi, result, missing, log, prompted, reprompts, lastRead,
          denied, narrative>>

inputs == <<cli, configDir, userFiles, fs0, denied>>

Call(op, name, file) == <<op, name, file>>

\* the Result<String, ReadlineError> of a readline
Read(kind, line) == [kind |-> kind, line |-> line]
NothingRead == Read("none", <<>>)

(***************************************************************************)
(* The states a run may start in.                                          *)
(***************************************************************************)
RECURSIVE SeqsUpTo(_, _)
SeqsUpTo(S, n) ==
    IF n = 0 THEN {<<>>}
    ELSE LET shorter == SeqsUpTo(S, n - 1)
         IN shorter \cup {Append(q, x) : q \in shorter, x \in S}

\* a template directory an earlier run, or the user, left behind
OldDir ==
    [kind |-> "dir",
     files |-> ("shell.nix" :> OldContent("shell.nix")) @@
               ("shell.nix_placeholder" :> OldContent("shell.nix_placeholder"))]

OldRoot == ("shell.nix" :> OldContent("shell.nix")) @@ (".envrc" :> OldContent(".envrc"))

InitialScaffolds ==
    {NoInix, [kind |-> "file", subs |-> <<>>]}
    \cup {[kind |-> "dir", subs |-> [n \in S |-> OldDir]] : S \in SUBSET {"rust", "node", "other"}}
    \cup {[kind |-> "dir", subs |-> ("rust" :> PlainFile) @@ [n \in S |-> OldDir]] :
            S \in SUBSET {"node"}}

InitialFileSystems ==
    {[target |-> "dir", root |-> r, inix |-> d] : r \in {NoFiles, OldRoot}, d \in InitialScaffolds}
    \cup {[target |-> "rodir", root |-> OldRoot, inix |-> d] :
            d \in {NoInix, [kind |-> "dir", subs |-> ("rust" :> OldDir)]}}
    \cup {[target |-> k, root |-> NoFiles, inix |-> NoInix] : k \in {"absent", "file"}}

InitialConfigs ==
    {[dir |-> "Dir", files |-> ("rust" :> "Envrc")], [dir |-> "NotFound", files |-> NoFiles]}

Construction ==
    /\ cli \in [templates : SeqsUpTo(TemplateArgs, MaxTemplates),
                dry_run : BOOLEAN,
                on_conflict : ConflictBehavior \cup {NoBehavior}]
    /\ \E c \in InitialConfigs : configDir = c.dir /\ userFiles = c.files
    /\ fs \in InitialFileSystems
    /\ fs0 = fs
    /\ pc = "get_templates"
    /\ templates = <<>>
    /\ inixState = DoesNotExist
    /\ onConflict = Cancel
    /\ toCopy = <<>>
    /\ ti = 1
    /\ fi = 1
    /\ result = "running"
    /\ missing = <<>>
    /\ log = <<>>
    /\ prompted = FALSE
    /\ reprompts = 0
    /\ lastRead = NothingRead
    /\ narrative = NoNarrative

\* every path can be queried
Init == Construction /\ denied = {}

\* the sets of paths a run may be unable to query
DeniedPaths == {{}, {"inix"}, {"rust"}}

\* variant: the error is noted and run goes on where it was
FailAndGoOn(err) ==
    /\ pc' = pc
    /\ result' = err

\* run returns Err(...): nothing after the failing call is executed
Fail(err) ==
    /\ pc' = "done"
    /\ result' = err

(***************************************************************************)
(* PREPARE                                                                 *)
(***************************************************************************)
\* let templates = try_get_templates(&cli.templates)?
GetTemplates ==
    /\ pc = "get_templates"
    /\ LET errs == MissingTemplates(cli.templates, configDir, userFiles)
       IN IF errs = <<>>
          THEN /\ templates' = FoundTemplates(cli.templates, configDir, userFiles)
               /\ pc' = "get_target_dir"
               /\ UNCHANGED <<result, missing>>
          ELSE /\ Fail("TemplatesNotFound")
               /\ missing' = errs
               /\ UNCHANGED templates
    /\ UNCHANGED <<inputs, fs, inixState, onConflict, toCopy, ti, fi, log, prompted,
                   reprompts, lastRead, narrative>>

\* variant: a target directory that does not exist is created on the spot
GetTargetDirCreating ==
    /\ pc = "get_target_dir"
    /\ IF TargetIsDir(fs) \/ ~TargetExists(fs)
       THEN /\ pc' = "inspect"
            /\ fs' = CreateTargetDir(fs)
            /\ log' = IF TargetExists(fs) THEN log
                      ELSE Append(log, Call("create_target_dir", "", ""))
            /\ UNCHANGED result
       ELSE Fail("NotADirectory") /\ UNCHANGED <<fs, log>>
    /\ UNCHANGED <<inputs, templates, inixState, onConflict, toCopy, ti, fi, missing,
                   prompted, reprompts, lastRead, narrative>>

\* let target_dir = try_get_target_dir(cli.directory)?
GetTargetDir ==
    /\ pc = "get_target_dir"
    /\ IF TargetIsDir(fs) \/ ~TargetExists(fs)
       THEN pc' = "inspect" /\ UNCHANGED result
       ELSE Fail("NotADirectory")
    /\ UNCHANGED <<inputs, fs, templates, inixState, onConflict, toCopy, ti, fi, missing,
                   log, prompted, reprompts, lastRead, narrative>>

\* let inix_dir = { ... }
InspectInixDir ==
    /\ pc = "inspect"
    /\ inixState' = InixDirState(templates, AsIsDirSees(fs, denied))
    /\ pc' = "resolve"
    /\ UNCHANGED <<inputs, fs, templates, onConflict, toCopy, ti, fi, result, missing,
                   log, prompted, reprompts, lastRead, narrative>>

\* whether the match on (&inix_dir.state, cli.on_conflict) calls the prompt
NeedsPrompt(state, explicit) == state.exists /\ explicit = NoBehavior

\* variant: the DoesNotExist arm placed first, so that it hides an explicit behaviour
BehaviorWithoutPromptStateFirst(state, explicit) ==
    IF ~state.exists THEN Cancel ELSE explicit

\* the arms of that match that give the behaviour without asking
BehaviorWithoutPrompt(state, explicit) ==
    IF explicit # NoBehavior THEN explicit ELSE Cancel

\* let on_conflict = match (&inix_dir.state, cli.on_conflict) { ... }
ResolveOnConflict ==
    /\ pc = "resolve"
    /\ IF NeedsPrompt(inixState, cli.on_conflict)
       THEN /\ pc' = "prompt"
            /\ prompted' = TRUE
            /\ UNCHANGED onConflict
       ELSE /\ onConflict' = BehaviorWithoutPrompt(inixState, cli.on_conflict)
            /\ pc' = "execute"
            /\ UNCHANGED prompted
    /\ UNCHANGED <<inputs, fs, templates, inixState, toCopy, ti, fi, result, missing, log,
                   reprompts, lastRead, narrative>>

(***************************************************************************)
(* prompt_for_conflict_behavior: the loop                                  *)
(***************************************************************************)
\* lines the user may enter
PromptLines ==
    {<<>>, <<"?">>, <<" ", "?", " ">>, <<"a">>, <<"A">>, <<" ", "b">>, <<"B", " ">>,
     <<"c">>, <<"C">>, <<"d">>, <<"D">>, <<"e">>, <<"a", "b">>, <<"a", " ", "b">>, <<" ">>}

\* Ok(line), Some((_, option)) => return Ok(option.conflict_behavior)
PromptDecides ==
    /\ pc = "prompt"
    /\ \E line \in PromptLines :
         LET d == LineDecision(line, PromptOptions(inixState.collisions))
         IN /\ d \in ConflictBehavior
            /\ onConflict' = d
            /\ lastRead' = Read("Ok", line)
    /\ pc' = "execute"
    /\ UNCHANGED <<inputs, fs, templates, inixState, toCopy, ti, fi, result, missing, log,
                   prompted, reprompts, narrative>>

\* Ok(line) if line.trim() == "?" => the prompt is printed again
PromptShowsOptions ==
    /\ pc = "prompt"
    /\ reprompts < MaxReprompts
    /\ \E line \in PromptLines :
         /\ LineDecision(line, PromptOptions(inixState.collisions)) = "show"
         /\ lastRead' = Read("Ok", line)
    /\ reprompts' = reprompts + 1
    /\ UNCHANGED <<inputs, fs, pc, templates, inixState, onConflict, toCopy, ti, fi, result,
                   missing, log, prompted, narrative>>

\* Ok(line), None => "Sorry, I don't understand what you mean."
PromptRejects ==
    /\ pc = "prompt"
    /\ reprompts < MaxReprompts
    /\ \E line \in PromptLines :
         /\ LineDecision(line, PromptOptions(inixState.collisions)) = "unknown"
         /\ lastRead' = Read("Ok", line)
    /\ reprompts' = reprompts + 1
    /\ UNCHANGED <<inputs, fs, pc, templates, inixState, onConflict, toCopy, ti, fi, result,
                   missing, log, prompted, narrative>>

\* Err(ReadlineError::Interrupted | ReadlineError::Eof) => bail!
PromptInterrupted ==
    /\ pc = "prompt"
    /\ \E err \in {"Interrupted", "Eof"} : lastRead' = Read(err, <<>>)
    /\ Fail("Cancelled")
    /\ UNCHANGED <<inputs, fs, templates, inixState, onConflict, toCopy, ti, fi, missing,
                   log, prompted, reprompts, narrative>>

\* Err(err) => "Please try again or quit the program"
PromptReadError ==
    /\ pc = "prompt"
    /\ reprompts < MaxReprompts
    /\ reprompts' = reprompts + 1
    /\ lastRead' = Read("Err", <<>>)
    /\ UNCHANGED <<inputs, fs, pc, templates, inixState, onConflict, toCopy, ti, fi, result,
                   missing, log, prompted, narrative>>

(***************************************************************************)
(* EXECUTE                                                                 *)
(***************************************************************************)
\* if cli.dry_run { println!("So here's the plan:"); ... }
DryRun ==
    /\ pc = "execute"
    /\ cli.dry_run
    /\ narrative' = Describe(inixState, onConflict, templates)
    /\ pc' = "render_nix"
    /\ UNCHANGED <<inputs, fs, templates, inixState, onConflict, toCopy, ti, fi, result,
                   missing, log, prompted, reprompts, lastRead>>

\* variant: the permissions of an existing target directory are not looked at
PrepareTargetDirUnchecked ==
    /\ pc = "execute"
    /\ ~cli.dry_run
    /\ \E ok \in BOOLEAN :
         IF ~TargetExists(fs)
         THEN IF ok /\ CanCreateTargetDir(fs)
              THEN /\ fs' = CreateTargetDir(fs)
                   /\ log' = Append(log, Call("create_target_dir", "", ""))
                   /\ pc' = "copy"
                   /\ UNCHANGED result
              ELSE Fail("IoError") /\ UNCHANGED <<fs, log>>
         ELSE pc' = "copy" /\ UNCHANGED <<fs, log, result>>
    /\ UNCHANGED <<inputs, templates, inixState, onConflict, toCopy, ti, fi, missing,
                   prompted, reprompts, lastRead, narrative>>

\* variant: the scaffold directory is inspected again right before the match on its state
PrepareTargetDirReinspecting ==
    /\ pc = "execute"
    /\ ~cli.dry_run
    /\ inixState' = InixDirState(templates, fs)
    /\ \E ok \in BOOLEAN :
         IF ~TargetExists(fs)
         THEN IF ok /\ CanCreateTargetDir(fs)
              THEN /\ fs' = CreateTargetDir(fs)
                   /\ log' = Append(log, Call("create_target_dir", "", ""))
                   /\ pc' = "copy"
                   /\ UNCHANGED result
              ELSE Fail("IoError") /\ UNCHANGED <<fs, log>>
         ELSE IF ~ok THEN Fail("IoError") /\ UNCHANGED <<fs, log>>
              ELSE IF fs.target = "rodir" THEN Fail("ReadOnly") /\ UNCHANGED <<fs, log>>
                   ELSE pc' = "copy" /\ UNCHANGED <<fs, log, result>>
    /\ UNCHANGED <<inputs, templates, onConflict, toCopy, ti, fi, missing,
                   prompted, reprompts, lastRead, narrative>>

\* else { if !target_dir.exists() { create_dir_all } else { metadata, readonly check } }
PrepareTargetDir ==
    /\ pc = "execute"
    /\ ~cli.dry_run
    /\ \E ok \in BOOLEAN :
         IF ~TargetExists(fs)
         THEN IF ok /\ CanCreateTargetDir(fs)
              THEN /\ fs' = CreateTargetDir(fs)
                   /\ log' = Append(log, Call("create_target_dir", "", ""))
                   /\ pc' = "copy"
                   /\ UNCHANGED result
              ELSE Fail("IoError") /\ UNCHANGED <<fs, log>>
         ELSE IF ~ok THEN Fail("IoError") /\ UNCHANGED <<fs, log>>
              ELSE IF fs.target = "rodir" THEN Fail("ReadOnly") /\ UNCHANGED <<fs, log>>
                   ELSE pc' = "copy" /\ UNCHANGED <<fs, log, result>>
    /\ UNCHANGED <<inputs, templates, inixState, onConflict, toCopy, ti, fi, missing,
                   prompted, reprompts, lastRead, narrative>>

\* variant: the Cancel arm placed before the DoesNotExist arm
ArmCancelFirst(state, behavior) ==
    IF behavior = Cancel THEN Cancel
    ELSE IF ~state.exists THEN "DoesNotExist" ELSE behavior

\* variant: MergeReplace handled by the Overwrite arm
ArmReplaceAsOverwrite(state, behavior) ==
    IF ~state.exists THEN "DoesNotExist"
    ELSE IF behavior = MergeReplace THEN Overwrite ELSE behavior

\* which arm of match (inix_dir.state, on_conflict) is taken
Arm(state, behavior) == IF ~state.exists THEN "DoesNotExist" ELSE behavior

\* the templates the for loop of an arm runs over
ArmTemplates(state, behavior, ts) ==
    CASE Arm(state, behavior) = "DoesNotExist" -> ts
      [] Arm(state, behavior) = Overwrite -> ts
      [] Arm(state, behavior) = MergeKeep -> TemplatesToCopy(state.collisions, ts)
      [] Arm(state, behavior) = MergeReplace -> ts
      [] Arm(state, behavior) = Cancel -> <<>>

\* create_dir_all(inix_dir.path) of the DoesNotExist and Overwrite arms
CreateScaffoldDir ==
    /\ \/ pc = "copy" /\ Arm(inixState, onConflict) = "DoesNotExist"
       \/ pc = "recreate"
    /\ \E ok \in BOOLEAN :
         IF ok /\ CanCreateInixDir(fs)
         THEN /\ fs' = CreateInixDir(fs)
              /\ log' = Append(log, Call("create_inix_dir", "", ""))
              /\ toCopy' = ArmTemplates(inixState, onConflict, templates)
              /\ ti' = 1
              /\ pc' = "template_dir"
              /\ UNCHANGED result
         ELSE Fail("IoError") /\ UNCHANGED <<fs, log, toCopy, ti>>
    /\ UNCHANGED <<inputs, templates, inixState, onConflict, fi, missing, prompted,
                   reprompts, lastRead, narrative>>

\* remove_dir_all(inix_dir.path)? of the Overwrite arm
RemoveScaffoldDir ==
    /\ pc = "copy"
    /\ Arm(inixState, onConflict) = Overwrite
    /\ \E ok \in BOOLEAN :
         IF ok /\ CanRemoveInixDir(fs)
         THEN /\ fs' = RemoveInixDir(fs)
              /\ log' = Append(log, Call("remove_inix_dir", "", ""))
              /\ pc' = "recreate"
              /\ UNCHANGED result
         ELSE Fail("IoError") /\ UNCHANGED <<fs, log>>
    /\ UNCHANGED <<inputs, templates, inixState, onConflict, toCopy, ti, fi, missing,
                   prompted, reprompts, lastRead, narrative>>

\* the MergeKeep, MergeReplace and Cancel arms up to their loop
EnterMergeArm ==
    /\ pc = "copy"
    /\ Arm(inixState, onConflict) \in {MergeKeep, MergeReplace, Cancel}
    /\ toCopy' = ArmTemplates(inixState, onConflict, templates)
    /\ ti' = 1
    /\ pc' = "template_dir"
    /\ UNCHANGED <<inputs, fs, templates, inixState, onConflict, fi, result, missing, log,
                   prompted, reprompts, lastRead, narrative>>

\* for template in ...: create_dir_all(&target)?, or the end of the loop
CopyTemplateDir ==
    /\ pc = "template_dir"
    /\ IF ti > Len(toCopy)
       THEN pc' = "render_nix" /\ UNCHANGED <<fs, log, fi, result>>
       ELSE \E ok \in BOOLEAN :
              IF ok /\ CanCreateTemplateDir(fs, toCopy[ti].name)
              THEN /\ fs' = CreateTemplateDir(fs, toCopy[ti].name)
                   /\ log' = Append(log, Call("create_template_dir", toCopy[ti].name, ""))
                   /\ fi' = 1
                   /\ pc' = "template_file"
                   /\ UNCHANGED result
              ELSE Fail("IoError") /\ UNCHANGED <<fs, log, fi>>
    /\ UNCHANGED <<inputs, templates, inixState, onConflict, toCopy, ti, missing, prompted,
                   reprompts, lastRead, narrative>>

\* for (file_name, contents) in template.files(): fs::write(&file, &contents)?
CopyTemplateFile ==
    /\ pc = "template_file"
    /\ LET t == toCopy[ti]
           files == TemplateFileList(t)
       IN \E ok \in BOOLEAN :
            IF ok /\ CanWriteTemplateFile(fs, t.name)
            THEN /\ fs' = WriteTemplateFile(fs, t.name, files[fi][1], files[fi][2])
                 /\ log' = Append(log, Call("write_template_file", t.name, files[fi][1]))
                 /\ IF fi < Len(files)
                    THEN fi' = fi + 1 /\ UNCHANGED <<ti, pc>>
                    ELSE ti' = ti + 1 /\ pc' = "template_dir" /\ UNCHANGED fi
                 /\ UNCHANGED result
            ELSE Fail("IoError") /\ UNCHANGED <<fs, log, ti, fi>>
    /\ UNCHANGED <<inputs, templates, inixState, onConflict, toCopy, missing, prompted,
                   reprompts, lastRead, narrative>>

\* File::create(target_dir.join(file))? and render_template_to_write(...)? of one base file
RenderBase(file, nextPc, nextResult) ==
    /\ \E outcome \in {"ok", "create_fails", "render_fails"} :
         IF outcome = "create_fails" \/ ~CanCreateRootFile(fs)
         THEN Fail("IoError") /\ UNCHANGED <<fs, log>>
         ELSE IF outcome = "render_fails"
              THEN /\ fs' = CreateRootFile(fs, file)
                   /\ log' = Append(log, Call("create_root_file", "", file))
                   /\ Fail("RenderError")
              ELSE /\ fs' = RenderRootFile(CreateRootFile(fs, file), file, Names(templates))
                   /\ log' = log \o <<Call("create_root_file", "", file),
                                      Call("render_root_file", "", file)>>
                   /\ pc' = nextPc
                   /\ result' = nextResult
    /\ UNCHANGED <<inputs, templates, inixState, onConflict, toCopy, ti, fi, missing,
                   prompted, reprompts, lastRead, narrative>>

\* render base templates: shell.nix
RenderShellNix ==
    /\ pc = "render_nix"
    /\ RenderBase("shell.nix", "render_envrc", "running")

\* variant: the second base file goes to the path of the first
RenderEnvrcToShellNix ==
    /\ pc = "render_envrc"
    /\ RenderBase("shell.nix", "done", "Ok")

\* render base templates: .envrc, then Ok(())
RenderEnvrc ==
    /\ pc = "render_envrc"
    /\ RenderBase(".envrc", "done", "Ok")

Next ==
    \/ GetTemplates
    \/ GetTargetDir
    \/ InspectInixDir
    \/ ResolveOnConflict
    \/ PromptDecides
    \/ PromptShowsOptions
    \/ PromptRejects
    \/ PromptInterrupted
    \/ PromptReadError
    \/ DryRun
    \/ PrepareTargetDir
    \/ CreateScaffoldDir
    \/ RemoveScaffoldDir
    \/ EnterMergeArm
    \/ CopyTemplateDir
    \/ CopyTemplateFile
    \/ RenderShellNix
    \/ RenderEnvrc

Spec == Init /\ [][Next]_vars

(***************************************************************************)
(* The run next to another process that works on the scaffold directory   *)
(* after run has inspected it and before run executes.                    *)
(***************************************************************************)
\* what the other process may leave at inix/
ChangedScaffolds ==
    {NoInix,
     [kind |-> "dir", subs |-> ("other" :> OldDir)],
     [kind |-> "dir", subs |-> ("rust" :> OldDir) @@ ("other" :> OldDir)]}

\* the scaffold directory changes once, between `let inix_dir = {...}` and the execution
ScaffoldChangesMeanwhile ==
    /\ pc \in {"resolve", "prompt", "execute"}
    /\ fs = fs0
    /\ TargetIsDir(fs)
    /\ \E d \in ChangedScaffolds :
         /\ d # fs.inix
         /\ fs' = [fs EXCEPT !.inix = d]
    /\ UNCHANGED <<inputs, pc, templates, inixState, onConflict, toCopy, ti, fi, result,
                   missing, log, prompted, reprompts, lastRead, narrative>>

\* the run with paths whose metadata cannot be read
InitWithDeniedQueries == Construction /\ denied \in DeniedPaths

SpecWithDeniedQueries == InitWithDeniedQueries /\ [][Next]_vars

NextWithEnvironment == Next \/ ScaffoldChangesMeanwhile

SpecWithEnvironment == Init /\ [][NextWithEnvironment]_vars

(***************************************************************************)
(* What the properties below speak about.                                  *)
(***************************************************************************)
\* run returned Ok(())
Succeeded == pc = "done" /\ result = "Ok"

\* on_conflict has its value: run is past the match that resolves it
Resolved ==
    \/ pc \in {"execute", "copy", "recreate", "template_dir", "template_file",
               "render_nix", "render_envrc"}
    \/ pc = "done" /\ result \notin {"TemplatesNotFound", "NotADirectory", "Cancelled"}

\* the loop over the templates has run to its end
CopyFinished == pc \in {"render_nix", "render_envrc"} \/ Succeeded

\* the scaffold directory existed when the run started
ScaffoldExisted == fs0.target \in {"dir", "rodir"} /\ fs0.inix.kind = "dir"

\* the distinct names given on the command line
Requested == {cli.templates[i] : i \in 1..Len(cli.templates)}

\* the requested names that were subdirectories of the scaffold when the run started
ExistingRequested ==
    {n \in Requested : /\ ScaffoldExisted
                       /\ n \in DOMAIN fs0.inix.subs
                       /\ fs0.inix.subs[n].kind = "dir"}

\* the template subdirectories the run created or wrote a file into
WrittenTemplates ==
    {log[i][2] : i \in {j \in 1..Len(log) :
                          log[j][1] \in {"create_template_dir", "write_template_file"}}}

\* the directory inix/<name>/ of a freshly written template: its files and nothing else
FreshTemplateDir(t) ==
    LET files == TemplateFileList(t)
    IN [kind |-> "dir",
        files |-> [f \in {files[i][1] : i \in 1..Len(files)} |->
                     Content(t.type, <<t.name>>, f)]]

\* the resolved template of a requested name
TemplateNamed(n) == CHOOSE t \in SeqToSet(templates) : t.name = n

(***************************************************************************)
(* C1.  A run with dry_run = true performs no file-system mutation:       *)
(* nothing under the target directory is created, modified or removed.    *)
(* The code renders shell.nix and .envrc after the dry-run branch, so the *)
(* statement fails.                                                        *)
(***************************************************************************)
C1_DryRunMutatesNothing == cli.dry_run => fs = fs0

(***************************************************************************)
(* C2.  With no requested template, an existing scaffold directory and    *)
(* the explicit behaviour Overwrite, a real run leaves every subdirectory *)
(* of inix/ in place.  The Overwrite arm removes the directory whatever   *)
(* the request, so the statement fails.                                    *)
(***************************************************************************)
C2_EmptyOverwriteKeepsScaffold ==
    (/\ Succeeded
     /\ ~cli.dry_run
     /\ cli.templates = <<>>
     /\ cli.on_conflict = Overwrite
     /\ ScaffoldExisted)
    => /\ fs.inix.kind = "dir"
       /\ \A d \in DOMAIN fs0.inix.subs : d \in DOMAIN fs.inix.subs

(***************************************************************************)
(* C3.  When the scaffold directory exists and the effective behaviour is *)
(* Cancel, given explicitly or chosen at the prompt, the run writes       *)
(* nothing: the target directory, shell.nix and .envrc included, is as it *)
(* was.  The base files are rendered after the Cancel arm, so the         *)
(* statement fails, already for the runs that are not dry runs.           *)
(***************************************************************************)
C3_CancelWritesNothing ==
    (Resolved /\ ~cli.dry_run /\ inixState.exists /\ onConflict = Cancel) => fs = fs0

(***************************************************************************)
(* C4.  With R the requested names (a list with duplicates counts as the  *)
(* set of its names) and E the requested names that are subdirectories of *)
(* an existing scaffold directory, the computed collisions are None iff E *)
(* is empty, All(E) iff E = R and the list is not empty, Some(E)          *)
(* otherwise; the payload is not empty and within R; an empty request     *)
(* gives None.                                                             *)
(***************************************************************************)
C4_CollisionsClassified ==
    (Resolved \/ pc \in {"resolve", "prompt"}) /\ ScaffoldExisted =>
        LET c == inixState.collisions
            E == ExistingRequested
            R == Requested
        IN /\ inixState.exists
           /\ c.tag \in {"None", "All", "Some"}
           /\ (c.tag = "None") <=> (E = {})
           /\ (c.tag = "All") <=> (E = R /\ cli.templates # <<>>)
           /\ (c.tag = "Some") <=> (E # {} /\ E # R)
           /\ c.tag # "None" =>
                /\ c.names # <<>>
                /\ SeqToSet(c.names) = E
                /\ SeqToSet(c.names) \subseteq R
           /\ c.tag = "None" => c.names = <<>>
           /\ cli.templates = <<>> => c.tag = "None"

\* a request that names one existing template twice is classified All
C4_Witness ==
    /\ pc = "resolve"
    /\ ScaffoldExisted
    /\ cli.templates = <<"node", "node">>
    /\ inixState.collisions = Collisions("All", <<"node", "node">>)

(***************************************************************************)
(* C5.  An explicit behaviour is used as given and nobody is asked;       *)
(* without one, a missing scaffold directory gives Cancel and nobody is   *)
(* asked; without one and with an existing scaffold directory the user is *)
(* asked and the answer, one of the options shown, is the behaviour.  So  *)
(* the prompt appears exactly when the scaffold directory exists and no   *)
(* behaviour was given.                                                    *)
(***************************************************************************)
C5_BehaviorResolved ==
    /\ prompted => ScaffoldExisted /\ cli.on_conflict = NoBehavior
    /\ Resolved \/ pc = "prompt" =>
         (prompted <=> (ScaffoldExisted /\ cli.on_conflict = NoBehavior))
    /\ Resolved =>
         /\ cli.on_conflict # NoBehavior => onConflict = cli.on_conflict
         /\ cli.on_conflict = NoBehavior /\ ~ScaffoldExisted => onConflict = Cancel
         /\ cli.on_conflict = NoBehavior /\ ScaffoldExisted =>
              \E k \in DOMAIN PromptOptions(inixState.collisions) :
                 onConflict = PromptOptions(inixState.collisions)[k]

\* an explicit Overwrite with no scaffold directory is used as given, unprompted
C5_Witness ==
    /\ pc = "execute"
    /\ ~ScaffoldExisted
    /\ cli.on_conflict = Overwrite
    /\ onConflict = Overwrite
    /\ ~prompted

(***************************************************************************)
(* C6.  The behaviour the prompt returns is one of those offered for the  *)
(* collision state: for None one of MergeKeep, Overwrite, Cancel; for All *)
(* one of Overwrite, MergeReplace, Cancel; for Some any of the four; and  *)
(* each label offered stands for the behaviour of the same name.          *)
(***************************************************************************)
C6_Offered(tag) ==
    CASE tag = "None" -> {MergeKeep, Overwrite, Cancel}
      [] tag = "All" -> {Overwrite, MergeReplace, Cancel}
      [] tag = "Some" -> {Overwrite, MergeReplace, MergeKeep, Cancel}

C6_BehaviorOfLabel(tag, label) ==
    CASE label = "merge" /\ tag = "None" -> MergeKeep
      [] label = "overwrite" -> Overwrite
      [] label = "merge-replace" /\ tag # "None" -> MergeReplace
      [] label = "merge-keep" /\ tag = "Some" -> MergeKeep
      [] label = "cancel" -> Cancel
      [] OTHER -> "not offered"

C6_PromptReturnsOffered ==
    prompted =>
        LET c == inixState.collisions
        IN /\ Resolved => onConflict \in C6_Offered(c.tag)
           /\ {PromptOptions(c)[k] : k \in DOMAIN PromptOptions(c)} = C6_Offered(c.tag)
           /\ \A k \in DOMAIN PromptOptions(c) :
                PromptOptions(c)[k] = C6_BehaviorOfLabel(c.tag, PromptLabels(c)[k])

\* with every requested template present, the user chose merge-replace
C6_Witness ==
    /\ prompted
    /\ pc = "execute"
    /\ inixState.collisions.tag = "All"
    /\ onConflict = MergeReplace

(***************************************************************************)
(* C7.  With an existing scaffold directory and the behaviour MergeKeep,  *)
(* the template subdirectories a real run writes are exactly the          *)
(* requested ones that did not collide (None: all, Some(ts): requested    *)
(* minus ts, All: none), and every colliding subdirectory keeps its files *)
(* as they were.                                                           *)
(***************************************************************************)
C7_MergeKeepWritesOnlyNew ==
    (Resolved /\ ~cli.dry_run /\ ScaffoldExisted /\ onConflict = MergeKeep) =>
        /\ WrittenTemplates \subseteq Requested \ ExistingRequested
        /\ CopyFinished => WrittenTemplates = Requested \ ExistingRequested
        /\ \A n \in ExistingRequested :
             /\ n \in DOMAIN fs.inix.subs
             /\ fs.inix.subs[n] = fs0.inix.subs[n]
        /\ inixState.collisions.tag = "All" => WrittenTemplates = {}
        /\ inixState.collisions.tag = "None" /\ CopyFinished => WrittenTemplates = Requested

\* node existed, rust did not: only rust was written
C7_Witness ==
    /\ Succeeded
    /\ ~cli.dry_run
    /\ onConflict = MergeKeep
    /\ inixState.collisions = Collisions("Some", <<"node">>)
    /\ WrittenTemplates = {"rust"}
    /\ fs.inix.subs["node"] = OldDir

(***************************************************************************)
(* C8.  With an existing scaffold directory and the behaviour             *)
(* MergeReplace, after a successful real run every requested template has *)
(* its subdirectory under inix/ holding that template's files with the    *)
(* new contents, whether or not it existed before, and every existing     *)
(* subdirectory that was not requested is as it was.                      *)
(***************************************************************************)
C8_MergeReplaceWritesAll ==
    (Succeeded /\ ~cli.dry_run /\ ScaffoldExisted /\ onConflict = MergeReplace) =>
        /\ fs.inix.kind = "dir"
        /\ \A n \in Requested :
             /\ n \in DOMAIN fs.inix.subs
             /\ fs.inix.subs[n].kind = "dir"
             /\ LET new == FreshTemplateDir(TemplateNamed(n)).files
                IN \A f \in DOMAIN new :
                     /\ f \in DOMAIN fs.inix.subs[n].files
                     /\ fs.inix.subs[n].files[f] = new[f]
        /\ \A d \in DOMAIN fs0.inix.subs \ Requested :
             /\ d \in DOMAIN fs.inix.subs
             /\ fs.inix.subs[d] = fs0.inix.subs[d]

\* the built-in rust template replaced the old inix/rust/shell.nix; inix/other/ stayed
C8_Witness ==
    /\ Succeeded
    /\ ~cli.dry_run
    /\ onConflict = MergeReplace
    /\ cli.templates = <<"rust", "node">>
    /\ configDir = "NotFound"
    /\ DOMAIN fs0.inix.subs = {"rust", "other"}
    /\ fs0.inix.subs["rust"] = OldDir
    /\ fs.inix.subs["rust"].files["shell.nix"] = Content("Builtin", <<"rust">>, "shell.nix")
    /\ fs.inix.subs["other"] = OldDir

(***************************************************************************)
(* C9.  With an existing scaffold directory, the behaviour Overwrite and  *)
(* a request that is not empty, a real run removes the whole scaffold     *)
(* directory before it creates or writes anything in it, and after a      *)
(* successful run inix/ holds one subdirectory per requested name, each   *)
(* with that template's files only, and nothing that was there before.    *)
(***************************************************************************)
C9_OverwriteStartsAfresh ==
    (/\ Resolved
     /\ ~cli.dry_run
     /\ ScaffoldExisted
     /\ onConflict = Overwrite
     /\ cli.templates # <<>>) =>
        /\ \A i \in 1..Len(log) :
             log[i][1] \in {"create_inix_dir", "create_template_dir", "write_template_file"}
                => \E j \in 1..(i - 1) : log[j][1] = "remove_inix_dir"
        /\ \A i \in 1..Len(log) : log[i][1] = "remove_inix_dir" => fs0.inix.kind = "dir"
        /\ pc = "recreate" => fs.inix = NoInix
        /\ Succeeded =>
             /\ fs.inix.kind = "dir"
             /\ DOMAIN fs.inix.subs = Requested
             /\ Cardinality(DOMAIN fs.inix.subs) = Cardinality(Requested)
             /\ \A n \in Requested : fs.inix.subs[n] = FreshTemplateDir(TemplateNamed(n))

\* inix/ held node/ and other/; after the run it holds a fresh node/ only
C9_Witness ==
    /\ Succeeded
    /\ ~cli.dry_run
    /\ onConflict = Overwrite
    /\ cli.templates = <<"node">>
    /\ DOMAIN fs0.inix.subs = {"node", "other"}
    /\ DOMAIN fs.inix.subs = {"node"}
    /\ DOMAIN fs.inix.subs["node"].files = {".envrc", "shell.nix"}

C11_Description == Describe(inixState, onConflict, templates)

\* the execution removed the scaffold directory
C11_ScaffoldRemoved == \E i \in 1..Len(log) : log[i][1] = "remove_inix_dir"

\* the claim as stated: it fails for an empty request, where nothing is written and
\* the description is still the one of the behaviour ("I will add these templates: ")
C11_DescriptionAgrees ==
    (CopyFinished /\ ~cli.dry_run /\ ScaffoldExisted) =>
        /\ SeqToSet(C11_Description.adds) = WrittenTemplates
        /\ C11_Description.deletes <=> C11_ScaffoldRemoved
        /\ (C11_Description.shape = "nothing") <=> (WrittenTemplates = {})

\* as amended: "nothing will be done" is said only when no template is written, and,
\* when at least one template is requested, whenever no template is written
C11_DescriptionAgreesNonEmpty ==
    /\ (CopyFinished /\ ~cli.dry_run /\ ScaffoldExisted) =>
        /\ SeqToSet(C11_Description.adds) = WrittenTemplates
        /\ C11_Description.deletes <=> C11_ScaffoldRemoved
        /\ C11_Description.shape = "nothing" => WrittenTemplates = {}
        /\ WrittenTemplates = {} /\ cli.templates # <<>> =>
             C11_Description.shape = "nothing"
    /\ (cli.dry_run /\ narrative # NoNarrative) =>
        /\ narrative = C11_Description
        /\ inixState = InixDirState(templates, fs0)

\* (MergeKeep, All): the description says nothing will be done and nothing was copied
C11_Witness ==
    /\ Succeeded
    /\ ~cli.dry_run
    /\ ScaffoldExisted
    /\ onConflict = MergeKeep
    /\ inixState.collisions.tag = "All"
    /\ C11_Description.shape = "nothing"
    /\ WrittenTemplates = {}

(***************************************************************************)
(* C12.  Nothing on the file system is created, written or removed before *)
(* the behaviour is resolved: every such call comes after the prompt, if  *)
(* there is one, has returned a behaviour, and a run that an interrupt or *)
(* the end of input stops at the prompt leaves the file system as it was  *)
(* at the start.                                                           *)
(***************************************************************************)
C12_NoMutationBeforeResolved ==
    /\ pc \in {"get_templates", "get_target_dir", "inspect", "resolve", "prompt"} =>
         fs = fs0 /\ log = <<>>
    /\ (fs # fs0 \/ log # <<>>) =>
         /\ Resolved
         /\ prompted => lastRead.kind = "Ok"
    /\ (prompted /\ lastRead.kind \in {"Interrupted", "Eof"}) =>
         /\ pc = "done"
         /\ result = "Cancelled"
         /\ fs = fs0
         /\ log = <<>>

\* the input ended at the prompt of a real run over a scaffold that has entries
C12_Witness ==
    /\ pc = "done"
    /\ result = "Cancelled"
    /\ ~cli.dry_run
    /\ lastRead.kind = "Eof"
    /\ reprompts = 1
    /\ DOMAIN fs0.inix.subs = {"rust", "node"}
    /\ fs = fs0

(***************************************************************************)
(* C13.  A cancellation, by the cancel option of the prompt or by an      *)
(* interrupt or the end of input at the prompt, is no error: run returns  *)
(* Ok and has written nothing.  In the code an interrupt or the end of    *)
(* input makes run return an error (bail!), and the cancel option lets    *)
(* run go on to render the base files, so the statement fails.            *)
(***************************************************************************)
C13_CancellationSucceedsWithoutWrites ==
    (/\ pc = "done"
     /\ prompted
     /\ \/ lastRead.kind \in {"Interrupted", "Eof"}
        \/ lastRead.kind = "Ok" /\ onConflict = Cancel) =>
        /\ result = "Ok"
        /\ fs = fs0

(***************************************************************************)
(* C14.  If a requested name is found neither among the user's templates  *)
(* nor among the built-in ones, the run fails with an error that lists    *)
(* every such name, and it fails before the scaffold directory is looked  *)
(* at: no prompt, no change on the file system, also when other requested *)
(* names were found.                                                       *)
(***************************************************************************)
\* the names that can be found: the built-in ones and those of the user's directory
C14_Known ==
    {"rust", "node", "base"} \cup (IF configDir = "Dir" THEN DOMAIN userFiles ELSE {})

\* the requested names that cannot be found, in the order given
C14_Unresolved == SelectSeq(cli.templates, LAMBDA n : n \notin C14_Known)

C14_UnresolvedNamesStopTheRun ==
    C14_Unresolved # <<>> =>
        /\ pc \in {"get_templates", "done"}
        /\ pc = "done" =>
             /\ result = "TemplatesNotFound"
             /\ missing = C14_Unresolved
        /\ fs = fs0
        /\ log = <<>>
        /\ ~prompted
        /\ lastRead = NothingRead
        /\ inixState = DoesNotExist
        /\ narrative = NoNarrative

\* two names are unknown, both are listed; the scaffold exists and nobody was asked
C14_Witness ==
    /\ pc = "done"
    /\ cli.templates = <<"ghost", "phantom">>
    /\ cli.on_conflict = NoBehavior
    /\ ScaffoldExisted
    /\ missing = <<"ghost", "phantom">>
    /\ ~prompted

(***************************************************************************)
(* C15.  With no requested template and no scaffold directory, a          *)
(* successful real run does not create inix/.  The DoesNotExist arm       *)
(* creates the directory before its loop, whatever the request, so the    *)
(* statement fails.                                                        *)
(***************************************************************************)
C15_NoEmptyScaffold ==
    (Succeeded /\ ~cli.dry_run /\ cli.templates = <<>> /\ fs0.inix.kind = "absent") =>
        fs.inix.kind = "absent"

(***************************************************************************)
(* C16.  After every successful real run, whatever the request (the empty *)
(* one included), the state of the directory and the behaviour, shell.nix *)
(* and .envrc are files at the root of the target directory, rendered for *)
(* the requested templates, and the target directory exists, created by   *)
(* the run if it was not there.                                            *)
(***************************************************************************)
C16_BaseFilesWritten ==
    (Succeeded /\ ~cli.dry_run) =>
        /\ fs.target = "dir"
        /\ fs0.target \in {"absent", "dir"}
        /\ fs0.target = "absent" => log[1] = Call("create_target_dir", "", "")
        /\ DOMAIN fs.root = {"shell.nix", ".envrc"}
        /\ \A f \in {"shell.nix", ".envrc"} :
             fs.root[f] = Content("Rendered", cli.templates, f)

\* the target directory did not exist and nothing was requested
C16_Witness ==
    /\ Succeeded
    /\ ~cli.dry_run
    /\ fs0.target = "absent"
    /\ cli.templates = <<>>
    /\ fs.target = "dir"
    /\ DOMAIN fs.root = {"shell.nix", ".envrc"}

(***************************************************************************)
(* C17.  With the behaviour MergeReplace on an existing scaffold          *)
(* directory, a requested template that is already there is replaced:     *)
(* after the run inix/<name>/ holds the files of the new template and no  *)
(* file that only the old subdirectory had.  The MergeReplace arm writes  *)
(* into the existing subdirectory and removes nothing, so the statement   *)
(* fails.                                                                  *)
(***************************************************************************)
C17_MergeReplaceRemovesOld ==
    (Succeeded /\ ~cli.dry_run /\ ScaffoldExisted /\ onConflict = MergeReplace) =>
        \A n \in ExistingRequested :
            /\ n \in DOMAIN fs.inix.subs
            /\ fs.inix.subs[n] = FreshTemplateDir(TemplateNamed(n))

(***************************************************************************)
(* C18.  If one file-system call of the execution fails (the removal of   *)
(* the scaffold directory, the creation of a directory, the writing of a  *)
(* file), the run ends at once with an error: no later call is made, so   *)
(* later templates are not written and the base files are not rendered,   *)
(* and what was done before the failure stays done.                       *)
(***************************************************************************)
C18_Failed == result \notin {"running", "Ok"}

C18_FailureStopsTheRun ==
    [][/\ C18_Failed' => pc' = "done"
       /\ (~C18_Failed /\ C18_Failed') =>
            \/ fs' = fs /\ log' = log
            \/ /\ result' = "RenderError"
               /\ \E f \in {"shell.nix", ".envrc"} :
                    /\ fs' = CreateRootFile(fs, f)
                    /\ log' = Append(log, Call("create_root_file", "", f))
       /\ C18_Failed => UNCHANGED <<fs, log, result, pc>>]_vars

\* the writing of inix/node/ failed after inix/rust/ was written: rust stays, no base file
C18_Witness ==
    /\ pc = "done"
    /\ result = "IoError"
    /\ ~cli.dry_run
    /\ cli.templates = <<"rust", "node">>
    /\ fs0.inix.kind = "absent"
    /\ fs0.root = NoFiles
    /\ "rust" \in DOMAIN fs.inix.subs
    /\ DOMAIN fs.inix.subs["rust"].files # {}
    /\ "node" \in DOMAIN fs.inix.subs
    /\ DOMAIN fs.inix.subs["node"].files = {".envrc"}
    /\ fs.root = NoFiles

(***************************************************************************)
(* C19.  With the behaviours MergeKeep, MergeReplace and Cancel on an     *)
(* existing scaffold directory the run never removes or recreates the     *)
(* scaffold directory itself and leaves every subdirectory of inix/ whose *)
(* name is not a requested template name unchanged; only the Overwrite    *)
(* behaviour may remove anything.                                         *)
(***************************************************************************)
C19_ScaffoldCalls ==
    {i \in 1..Len(log) : log[i][1] \in {"remove_inix_dir", "create_inix_dir"}}

\* nothing that was there when the run started is gone
C19_NothingRemoved ==
    /\ fs.target = fs0.target
    /\ DOMAIN fs0.root \subseteq DOMAIN fs.root
    /\ fs.inix.kind = fs0.inix.kind
    /\ fs0.inix.kind = "dir" =>
         \A n \in DOMAIN fs0.inix.subs :
             /\ n \in DOMAIN fs.inix.subs
             /\ fs.inix.subs[n].kind = fs0.inix.subs[n].kind
             /\ DOMAIN fs0.inix.subs[n].files \subseteq DOMAIN fs.inix.subs[n].files

C20_Spellings(k) ==
    CASE k = "A" -> {"A", "a"} [] k = "B" -> {"B", "b"}
      [] k = "C" -> {"C", "c"} [] k = "D" -> {"D", "d"}

\* the characters of a line that are not whitespace
C20_Visible(line) == SelectSeq(line, LAMBDA ch : ch \notin {" ", "\t"})

\* the offered labels a line spells: at most one
C20_LabelsOf(line, options) ==
    {k \in DOMAIN options :
        /\ Len(C20_Visible(line)) = 1
        /\ C20_Visible(line)[1] \in C20_Spellings(k)}

C20_OnlyALabelDecides ==
    [][pc = "prompt" =>
         LET options == PromptOptions(inixState.collisions)
             labels == IF lastRead'.kind = "Ok"
                       THEN C20_LabelsOf(lastRead'.line, options) ELSE {}
         IN /\ pc' \in {"prompt", "execute", "done"}
            /\ fs' = fs /\ log' = log /\ inixState' = inixState
            /\ pc' = "execute" <=> labels # {}
            /\ pc' = "execute" =>
                 /\ Cardinality(labels) = 1
                 /\ \A k \in labels : onConflict' = options[k]
                 /\ result' = result
            /\ pc' = "done" <=> lastRead'.kind \in {"Interrupted", "Eof"}
            /\ pc' = "done" => result' = "Cancelled"
            /\ pc' = "prompt" => UNCHANGED <<onConflict, result>>]_vars

\* a label with trailing whitespace decided after one line that did not
C20_Witness ==
    /\ pc = "execute"
    /\ prompted
    /\ reprompts = 1
    /\ lastRead = Read("Ok", <<"B", " ">>)
    /\ inixState.collisions.tag = "Some"
    /\ onConflict = MergeReplace

(***************************************************************************)
(* C21.  The directory state (whether inix/ exists, and the collisions)   *)
(* is computed exactly once per run, before the prompt and before any     *)
(* mutation, and that one value drives the options of the prompt, the     *)
(* description of the dry run and the execution: it is never computed     *)
(* again, even if the scaffold directory changes between the inspection   *)
(* and the execution.                                                     *)
(***************************************************************************)
C21_LastCall == log'[Len(log')][1]

C21_StateComputedOnce ==
    [][/\ pc = "inspect" =>
            /\ log = <<>> /\ ~prompted /\ fs = fs0
            /\ inixState' = InixDirState(templates, fs)
       /\ pc # "inspect" => inixState' = inixState
       /\ (pc = "prompt" /\ pc' = "execute") =>
            \E k \in DOMAIN PromptOptions(inixState.collisions) :
                onConflict' = PromptOptions(inixState.collisions)[k]
       /\ (pc = "execute" /\ pc' = "render_nix") =>
            narrative' = Describe(inixState, onConflict, templates)
       /\ (pc = "copy" /\ log' # log) =>
            /\ C21_LastCall = "create_inix_dir" <=> ~inixState.exists
            /\ C21_LastCall = "remove_inix_dir" <=>
                 (inixState.exists /\ onConflict = Overwrite)
       /\ (pc = "copy" /\ pc' = "template_dir" /\ log' = log) =>
            /\ inixState.exists
            /\ onConflict \in {MergeKeep, MergeReplace, Cancel}
            /\ toCopy' = ArmTemplates(inixState, onConflict, templates)]_vars

\* inix/ appeared after the inspection found none: the run went through the DoesNotExist arm
C21_Witness ==
    /\ Succeeded
    /\ ~cli.dry_run
    /\ ~inixState.exists
    /\ fs0.inix.kind = "absent"
    /\ "other" \in DOMAIN fs.inix.subs
    /\ cli.templates = <<"rust">>
    /\ log[2] = Call("create_template_dir", "rust", "")
    /\ log[1] = Call("create_inix_dir", "", "")

(***************************************************************************)
(* C22.  If the file system cannot be queried while the scaffold path or  *)
(* a template subdirectory is inspected, the inspection fails and the     *)
(* error reaches the caller: such a failure is never turned into the      *)
(* state DoesNotExist or into "this template does not collide".           *)
(***************************************************************************)
\* run has made the queries of `let inix_dir = {...}`
C22_Inspected ==
    /\ pc \notin {"get_templates", "get_target_dir", "inspect"}
    /\ ~(pc = "done" /\ result \in {"TemplatesNotFound", "NotADirectory"})

\* one of those queries was about a directory that is there and could not be answered
C22_QueryFailed ==
    /\ InixIsDir(fs0)
    /\ \/ "inix" \in denied
       \/ \E i \in 1..Len(templates) :
            /\ templates[i].name \in denied
            /\ SubIsDir(fs0, templates[i].name)

C22_QueryFailurePropagates ==
    (C22_Inspected /\ C22_QueryFailed) =>
        /\ pc = "done"
        /\ result = "IoError"
        /\ fs = fs0

(***************************************************************************)
(* C23.  A run that is no dry run validates the target before it writes   *)
(* any scaffold or base file: a target path that exists and is no         *)
(* directory makes the run fail before the inspection and the prompt, and *)
(* an existing target directory with read-only permissions makes it fail  *)
(* before any directory is created, removed or written; in both cases the *)
(* file system is unchanged.                                              *)
(***************************************************************************)
C23_TargetValidated ==
    /\ (~cli.dry_run /\ fs0.target = "file") =>
         /\ pc \in {"get_templates", "get_target_dir", "done"}
         /\ pc = "done" => result \in {"TemplatesNotFound", "NotADirectory"}
         /\ pc = "done" /\ missing = <<>> => result = "NotADirectory"
         /\ ~prompted
         /\ inixState = DoesNotExist
         /\ fs = fs0 /\ log = <<>>
    /\ (~cli.dry_run /\ fs0.target = "rodir") =>
         /\ pc \in {"get_templates", "get_target_dir", "inspect", "resolve", "prompt",
                    "execute", "done"}
         /\ pc = "done" => result \in {"TemplatesNotFound", "Cancelled", "ReadOnly", "IoError"}
         /\ fs = fs0 /\ log = <<>>

\* the read-only target directory was found out after the prompt, with nothing touched
C23_Witness ==
    /\ pc = "done"
    /\ result = "ReadOnly"
    /\ ~cli.dry_run
    /\ fs0.target = "rodir"
    /\ ScaffoldExisted
    /\ prompted
    /\ onConflict = Overwrite
    /\ fs = fs0

=============================================================================
